---- MODULE Spec2Model ----
(***************************************************************************)
(* md2pdf: a command-line Markdown to PDF converter (src/main.go).          *)
(*                                                                         *)
(* One process run is modelled as a state machine: parseFlags, the checks  *)
(* of main, then convertMarkdownToPDF step by step (read, write the        *)
(* temporary HTML file, look up a renderer, run it, deferred removal).     *)
(* Strings the code inspects character by character (paths, HTML text)     *)
(* are sequences of one-character strings.  The file system is a function  *)
(* from paths to contents; every I/O operation appends an event to log.    *)
(* Path separators are those of Unix ('/'); font sizes are integers.       *)
(***************************************************************************)
EXTENDS Integers, Sequences, FiniteSets, TLC

VARIABLES
    pc,         \* position of the process
    argv,       \* command-line arguments, a sequence of flag tokens
    cfg,        \* the Config record of main
    exitCode,   \* process exit status, NoExit while running
    stdout,     \* lines printed to standard output
    stderr,     \* lines printed to standard error
    files,      \* file system: path -> contents
    log,        \* I/O events in program order
    tmpHTML,    \* convertMarkdownToPDF: path of the temporary HTML file
    deferred,   \* convertMarkdownToPDF: the deferred os.Remove is registered
    chromeIdx,  \* convertMarkdownToPDF: index of the chromePaths loop
    chromeCmd,  \* convertMarkdownToPDF: the prepared Chrome command or NoCommand
    ret,        \* convertMarkdownToPDF: the returned error ("nil" for none)
    text,       \* stripHTML: the argument s
    stripped    \* stripHTML: the returned string, or Pending

vars == <<pc, argv, cfg, exitCode, stdout, stderr, files, log, tmpHTML,
          deferred, chromeIdx, chromeCmd, ret, text, stripped>>

mainVars == <<pc, argv, cfg, exitCode, stdout, stderr, files, log, tmpHTML,
              deferred, chromeIdx, chromeCmd, ret>>

(***************************************************************************)
(* Bounds of the model.                                                    *)
(***************************************************************************)
MaxArgs == 3        \* command lines of at most this many tokens
MaxPathLen == 4     \* input paths of at most this many characters
FontSpread == 20    \* font sizes within DefaultFontSize +/- FontSpread
MaxPieces == 3      \* HTML texts of at most this many pieces

DefaultFontSize == 12

NoExit == 0 - 1
Pending == <<"pending">>

(***************************************************************************)
(* Strings.                                                                *)
(***************************************************************************)
HasSuffix(s, suffix) ==
    /\ Len(suffix) <= Len(s)
    /\ SubSeq(s, Len(s) - Len(suffix) + 1, Len(s)) = suffix

TrimSuffix(s, suffix) ==
    IF HasSuffix(s, suffix) THEN SubSeq(s, 1, Len(s) - Len(suffix)) ELSE s

IsPathSeparator(c) == c = "/"

RECURSIVE ExtFrom(_, _)
ExtFrom(path, i) ==
    IF i < 1 \/ IsPathSeparator(path[i]) THEN <<>>
    ELSE IF path[i] = "." THEN SubSeq(path, i, Len(path))
    ELSE ExtFrom(path, i - 1)

\* A plausible slip: the extension taken from the first dot of the last element.
RECURSIVE FirstDotFrom(_, _, _)
FirstDotFrom(path, i, found) ==
    IF i < 1 \/ IsPathSeparator(path[i]) THEN found
    ELSE FirstDotFrom(path, i - 1,
                      IF path[i] = "." THEN SubSeq(path, i, Len(path)) ELSE found)

Ext_FirstDot(path) == FirstDotFrom(path, Len(path), <<>>)

Ext(path) == ExtFrom(path, Len(path))

PdfExt == <<".", "p", "d", "f">>
TmpSuffix == <<"_", "t", "m", "p", ".", "h", "t", "m", "l">>

DefaultOutput(input) == TrimSuffix(input, Ext(input)) \o PdfExt

TmpPath(output) == TrimSuffix(output, Ext(output)) \o TmpSuffix

(***************************************************************************)
(* Configuration and flag parsing.                                         *)
(***************************************************************************)
PageSizes == {"A4", "Letter", "Legal"}

ZeroConfig ==
    [InputFile |-> <<>>, OutputFile |-> <<>>, PageSize |-> "",
     FontSize |-> 0, ShowHelp |-> FALSE, ShowVer |-> FALSE]

FlagDefaults ==
    [ZeroConfig EXCEPT !.PageSize = "A4", !.FontSize = DefaultFontSize]

\* The variable a registered flag name is bound to, "" for an undefined flag.
FlagTarget_NoLongHelp(name) ==
    CASE name \in {"i", "input"} -> "InputFile"
      [] name \in {"o", "output"} -> "OutputFile"
      [] name = "page" -> "PageSize"
      [] name = "font-size" -> "FontSize"
      [] name = "h" -> "ShowHelp"
      [] name \in {"v", "version"} -> "ShowVer"
      [] OTHER -> ""

FlagTarget(name) ==
    CASE name \in {"i", "input"} -> "InputFile"
      [] name \in {"o", "output"} -> "OutputFile"
      [] name = "page" -> "PageSize"
      [] name = "font-size" -> "FontSize"
      [] name \in {"h", "help"} -> "ShowHelp"
      [] name \in {"v", "version"} -> "ShowVer"
      [] OTHER -> ""

\* A token of the command line: flag is the name without dashes, "" for a
\* positional argument; the value is in the field of the flag's type.
Token(flag, path, str, num) ==
    [flag |-> flag, path |-> path, str |-> str, num |-> num]

PathToken(flag, path) == Token(flag, path, "", 0)
StrToken(flag, str) == Token(flag, <<>>, str, 0)
NumToken(flag, num) == Token(flag, <<>>, "", num)
BoolToken(flag) == Token(flag, <<>>, "", 0)

SetFlag(c, tok) ==
    LET target == FlagTarget(tok.flag) IN
    CASE target = "InputFile" -> [c EXCEPT !.InputFile = tok.path]
      [] target = "OutputFile" -> [c EXCEPT !.OutputFile = tok.path]
      [] target = "PageSize" -> [c EXCEPT !.PageSize = tok.str]
      [] target = "FontSize" -> [c EXCEPT !.FontSize = tok.num]
      [] target = "ShowHelp" -> [c EXCEPT !.ShowHelp = TRUE]
      [] target = "ShowVer" -> [c EXCEPT !.ShowVer = TRUE]
      [] OTHER -> c

\* flag.Parse: tokens are taken in order; parsing stops at the first
\* positional argument; an undefined flag is an error (ExitOnError).
RECURSIVE FlagParse(_, _, _)
FlagParse(args, i, c) ==
    IF i > Len(args) \/ args[i].flag = "" THEN [cfg |-> c, ok |-> TRUE]
    ELSE IF FlagTarget(args[i].flag) = "" THEN [cfg |-> c, ok |-> FALSE]
    ELSE FlagParse(args, i + 1, SetFlag(c, args[i]))

parseFlags(args) == FlagParse(args, 1, FlagDefaults)

(***************************************************************************)
(* File system and I/O events.                                             *)
(***************************************************************************)
Content(kind, sizes) == [kind |-> kind, sizes |-> sizes]

Markdown == Content("markdown", <<>>)
Partial == Content("partial", <<>>)
PDF == Content("pdf", <<>>)
TruncatedPDF == Content("truncated", <<>>)

Exists(path) == path \in DOMAIN files

WriteTo(fs, path, content) ==
    [p \in DOMAIN fs \cup {path} |-> IF p = path THEN content ELSE fs[p]]

RemoveFrom(fs, path) == [p \in DOMAIN fs \ {path} |-> fs[p]]

Event(op, name, path, args, ok) ==
    [op |-> op, name |-> name, path |-> path, args |-> args, ok |-> ok]

\* A command-line argument handed to a renderer: the string lit followed by
\* the characters of path.
Arg(lit, path) == [lit |-> lit, path |-> path]

Command(name, args) == [name |-> name, args |-> args]

NoCommand == Command("", <<>>)

(***************************************************************************)
(* The style template: font sizes of body and h1..h4.                      *)
(***************************************************************************)
h1Size_Plus6(fontSize) == fontSize + 6

h1Size(fontSize) == fontSize + 8

h2Size(fontSize) == fontSize + 6

h3Size(fontSize) == fontSize + 4

h4Size(fontSize) == fontSize + 2

\* sizes[1] is the body rule, sizes[L + 1] the rule of heading level L.
htmlContent(c) ==
    Content("html", <<c.FontSize, h1Size(c.FontSize), h2Size(c.FontSize),
                      h3Size(c.FontSize), h4Size(c.FontSize)>>)

(***************************************************************************)
(* Renderers.                                                              *)
(***************************************************************************)
chromePaths ==
    <<"/Applications/Google Chrome.app/Contents/MacOS/Google Chrome",
      "/Applications/Chromium.app/Contents/MacOS/Chromium",
      "chromium",
      "google-chrome">>

wkhtmltopdfCommand(c, tmp) ==
    Command("wkhtmltopdf",
            <<Arg("--page-size", <<>>), Arg(c.PageSize, <<>>),
              Arg("--encoding", <<>>), Arg("UTF-8", <<>>),
              Arg("", tmp), Arg("", c.OutputFile)>>)

chromeCommand(chromePath, c, tmp) ==
    Command(chromePath,
            <<Arg("--headless", <<>>), Arg("--disable-gpu", <<>>),
              Arg("--print-to-pdf=", c.OutputFile), Arg("", tmp)>>)

\* What a finished renderer leaves at the output path.
RendererOutcomes == {"ok", "failed", "failed-truncated"}

AfterRenderer(fs, output, outcome) ==
    CASE outcome = "ok" -> WriteTo(fs, output, PDF)
      [] outcome = "failed-truncated" -> WriteTo(fs, output, TruncatedPDF)
      [] OTHER -> fs

(***************************************************************************)
(* main                                                                    *)
(***************************************************************************)
Exit(code) == /\ exitCode' = code
              /\ pc' = "exited"

ParseFlags ==
    /\ pc = "parseFlags"
    /\ LET r == parseFlags(argv) IN
       IF r.ok
       THEN /\ cfg' = r.cfg
            /\ pc' = "main"
            /\ UNCHANGED <<exitCode, stderr>>
       ELSE /\ stderr' = stderr \o <<<<"flag provided but not defined">>, <<"usage">>>>
            /\ Exit(2)
            /\ UNCHANGED cfg
    /\ UNCHANGED <<argv, stdout, files, log, tmpHTML, deferred, chromeIdx,
                   chromeCmd, ret, text, stripped>>

HelpRequested(c) == c.ShowHelp

VersionRequested(c) == c.ShowVer

InputMissing_Never(c) == FALSE

InputMissing(c) == c.InputFile = <<>>

MainHelp ==
    /\ pc = "main"
    /\ HelpRequested(cfg)
    /\ stderr' = stderr \o <<<<"usage">>>>
    /\ Exit(0)
    /\ UNCHANGED <<argv, cfg, stdout, files, log, tmpHTML, deferred, chromeIdx,
                   chromeCmd, ret, text, stripped>>

MainVersion ==
    /\ pc = "main"
    /\ ~HelpRequested(cfg)
    /\ VersionRequested(cfg)
    /\ stdout' = stdout \o <<<<"md2pdf version", "1.0.0">>>>
    /\ Exit(0)
    /\ UNCHANGED <<argv, cfg, stderr, files, log, tmpHTML, deferred, chromeIdx,
                   chromeCmd, ret, text, stripped>>

MainMissingInput ==
    /\ pc = "main"
    /\ ~HelpRequested(cfg)
    /\ ~VersionRequested(cfg)
    /\ InputMissing(cfg)
    /\ stderr' = stderr \o <<<<"Error: input file is required. Use -i flag to specify input file.">>>>
    /\ Exit(1)
    /\ UNCHANGED <<argv, cfg, stdout, files, log, tmpHTML, deferred, chromeIdx,
                   chromeCmd, ret, text, stripped>>

\* Lines 47-51: default the output path, then call convertMarkdownToPDF.
MainResolveOutput ==
    /\ pc = "main"
    /\ ~HelpRequested(cfg)
    /\ ~VersionRequested(cfg)
    /\ ~InputMissing(cfg)
    /\ cfg' = IF cfg.OutputFile = <<>>
              THEN [cfg EXCEPT !.OutputFile = DefaultOutput(cfg.InputFile)]
              ELSE cfg
    /\ pc' = "ReadFile"
    /\ UNCHANGED <<argv, exitCode, stdout, stderr, files, log, tmpHTML, deferred,
                   chromeIdx, chromeCmd, ret, text, stripped>>

MainFail ==
    /\ pc = "returned"
    /\ ret # "nil"
    /\ stderr' = stderr \o <<<<"Conversion failed", ret>>>>
    /\ Exit(1)
    /\ UNCHANGED <<argv, cfg, stdout, files, log, tmpHTML, deferred, chromeIdx,
                   chromeCmd, ret, text, stripped>>

MainSuccess ==
    /\ pc = "returned"
    /\ ret = "nil"
    /\ stdout' = stdout \o <<<<"Successfully converted">>>>
    /\ Exit(0)
    /\ UNCHANGED <<argv, cfg, stderr, files, log, tmpHTML, deferred, chromeIdx,
                   chromeCmd, ret, text, stripped>>

(***************************************************************************)
(* convertMarkdownToPDF                                                    *)
(***************************************************************************)
Logged(e) == log' = Append(log, e)

ConvertReadFile_IgnoreError ==
    /\ pc = "ReadFile"
    /\ Logged(Event("ReadFile", "", cfg.InputFile, <<>>, Exists(cfg.InputFile)))
    /\ pc' = "WriteFile"
    /\ UNCHANGED <<argv, cfg, exitCode, stdout, stderr, files, tmpHTML, deferred,
                   chromeIdx, chromeCmd, ret, text, stripped>>

ConvertReadFile ==
    /\ pc = "ReadFile"
    /\ Logged(Event("ReadFile", "", cfg.InputFile, <<>>, Exists(cfg.InputFile)))
    /\ IF Exists(cfg.InputFile)
       THEN /\ pc' = "WriteFile"
            /\ UNCHANGED ret
       ELSE /\ ret' = "failed to read input file"
            /\ pc' = "return"
    /\ UNCHANGED <<argv, cfg, exitCode, stdout, stderr, files, tmpHTML, deferred,
                   chromeIdx, chromeCmd, text, stripped>>

\* Lines 94-167: render, fill the template, write the temporary file and
\* register its removal.  A failed write may leave a partial file behind.
WriteOutcomes == {"ok", "failed", "failed-partial"}

ConvertWriteFile ==
    /\ pc = "WriteFile"
    /\ LET tmp == TmpPath(cfg.OutputFile) IN
       /\ tmpHTML' = tmp
       /\ \E outcome \in WriteOutcomes :
            /\ Logged(Event("WriteFile", "", tmp, <<>>, outcome = "ok"))
            /\ files' = CASE outcome = "ok" -> WriteTo(files, tmp, htmlContent(cfg))
                          [] outcome = "failed-partial" -> WriteTo(files, tmp, Partial)
                          [] OTHER -> files
            /\ IF outcome = "ok"
               THEN /\ deferred' = TRUE
                    /\ pc' = "LookWk"
                    /\ UNCHANGED ret
               ELSE /\ ret' = "failed to write HTML file"
                    /\ pc' = "return"
                    /\ UNCHANGED deferred
    /\ UNCHANGED <<argv, cfg, exitCode, stdout, stderr, chromeIdx, chromeCmd,
                   text, stripped>>

ConvertLookWk ==
    /\ pc = "LookWk"
    /\ \E found \in BOOLEAN :
         /\ Logged(Event("LookPath", "wkhtmltopdf", <<>>, <<>>, found))
         /\ pc' = IF found THEN "RunWk" ELSE "LookChrome"
         /\ chromeIdx' = IF found THEN chromeIdx ELSE 1
    /\ UNCHANGED <<argv, cfg, exitCode, stdout, stderr, files, tmpHTML, deferred,
                   chromeCmd, ret, text, stripped>>

ConvertRunWk ==
    /\ pc = "RunWk"
    /\ Logged(Event("Run", "wkhtmltopdf", <<>>,
                    wkhtmltopdfCommand(cfg, tmpHTML).args, TRUE))
    /\ pc' = "WaitWk"
    /\ UNCHANGED <<argv, cfg, exitCode, stdout, stderr, files, tmpHTML, deferred,
                   chromeIdx, chromeCmd, ret, text, stripped>>

\* A plausible slip: a failed wkhtmltopdf falls back to the Chrome candidates.
ConvertWaitWk_Fallback ==
    /\ pc = "WaitWk"
    /\ \E outcome \in RendererOutcomes :
         /\ files' = AfterRenderer(files, cfg.OutputFile, outcome)
         /\ Logged(Event("Exit", "wkhtmltopdf", <<>>, <<>>, outcome = "ok"))
         /\ pc' = IF outcome = "ok" THEN "return" ELSE "LookChrome"
         /\ chromeIdx' = IF outcome = "ok" THEN chromeIdx ELSE 1
    /\ UNCHANGED <<argv, cfg, exitCode, stdout, stderr, tmpHTML, deferred,
                   chromeCmd, ret, text, stripped>>

ConvertWaitWk ==
    /\ pc = "WaitWk"
    /\ \E outcome \in RendererOutcomes :
         /\ files' = AfterRenderer(files, cfg.OutputFile, outcome)
         /\ Logged(Event("Exit", "wkhtmltopdf", <<>>, <<>>, outcome = "ok"))
         /\ ret' = IF outcome = "ok" THEN "nil" ELSE "wkhtmltopdf failed"
    /\ pc' = "return"
    /\ UNCHANGED <<argv, cfg, exitCode, stdout, stderr, tmpHTML, deferred,
                   chromeIdx, chromeCmd, text, stripped>>

\* One iteration of the loop over chromePaths (lines 191-200).
ConvertLookChrome ==
    /\ pc = "LookChrome"
    /\ chromeIdx <= Len(chromePaths)
    /\ \E found \in BOOLEAN :
         /\ Logged(Event("LookPath", chromePaths[chromeIdx], <<>>, <<>>, found))
         /\ IF found
            THEN /\ chromeCmd' = chromeCommand(chromePaths[chromeIdx], cfg, tmpHTML)
                 /\ pc' = "CheckChrome"
                 /\ UNCHANGED chromeIdx
            ELSE /\ chromeIdx' = chromeIdx + 1
                 /\ pc' = IF chromeIdx + 1 > Len(chromePaths)
                          THEN "CheckChrome" ELSE "LookChrome"
                 /\ UNCHANGED chromeCmd
    /\ UNCHANGED <<argv, cfg, exitCode, stdout, stderr, files, tmpHTML, deferred,
                   ret, text, stripped>>

ConvertNoRenderer ==
    /\ pc = "CheckChrome"
    /\ chromeCmd = NoCommand
    /\ ret' = "no PDF renderer found. Please install wkhtmltopdf or Chrome: brew install wkhtmltopdf"
    /\ pc' = "return"
    /\ UNCHANGED <<argv, cfg, exitCode, stdout, stderr, files, log, tmpHTML,
                   deferred, chromeIdx, chromeCmd, text, stripped>>

ConvertRunChrome ==
    /\ pc = "CheckChrome"
    /\ chromeCmd # NoCommand
    /\ Logged(Event("Run", chromeCmd.name, <<>>, chromeCmd.args, TRUE))
    /\ pc' = "WaitChrome"
    /\ UNCHANGED <<argv, cfg, exitCode, stdout, stderr, files, tmpHTML, deferred,
                   chromeIdx, chromeCmd, ret, text, stripped>>

ConvertWaitChrome ==
    /\ pc = "WaitChrome"
    /\ \E outcome \in RendererOutcomes :
         /\ files' = AfterRenderer(files, cfg.OutputFile, outcome)
         /\ Logged(Event("Exit", chromeCmd.name, <<>>, <<>>, outcome = "ok"))
         /\ ret' = IF outcome = "ok" THEN "nil" ELSE "chrome headless failed"
    /\ pc' = "return"
    /\ UNCHANGED <<argv, cfg, exitCode, stdout, stderr, tmpHTML, deferred,
                   chromeIdx, chromeCmd, text, stripped>>

\* A plausible slip: the temporary file is removed on the success path only.
ConvertReturn_RemoveOnSuccess ==
    /\ pc = "return"
    /\ IF deferred /\ ret = "nil"
       THEN /\ files' = RemoveFrom(files, tmpHTML)
            /\ Logged(Event("Remove", "", tmpHTML, <<>>, TRUE))
       ELSE UNCHANGED <<files, log>>
    /\ pc' = "returned"
    /\ UNCHANGED <<argv, cfg, exitCode, stdout, stderr, tmpHTML, deferred,
                   chromeIdx, chromeCmd, ret, text, stripped>>

\* The function returns: the deferred os.Remove(tmpHTML) of line 167 runs if
\* it was registered.
ConvertReturn ==
    /\ pc = "return"
    /\ IF deferred
       THEN /\ files' = RemoveFrom(files, tmpHTML)
            /\ Logged(Event("Remove", "", tmpHTML, <<>>, TRUE))
       ELSE UNCHANGED <<files, log>>
    /\ pc' = "returned"
    /\ UNCHANGED <<argv, cfg, exitCode, stdout, stderr, tmpHTML, deferred,
                   chromeIdx, chromeCmd, ret, text, stripped>>

(***************************************************************************)
(* stripHTML                                                               *)
(***************************************************************************)
\* The loop of lines 219-231 from position i on.
RECURSIVE ScanTags(_, _, _, _)
ScanTags(s, i, inTag, result) ==
    IF i > Len(s) THEN result
    ELSE IF s[i] = "<" THEN ScanTags(s, i + 1, TRUE, result)
    ELSE IF s[i] = ">" THEN ScanTags(s, i + 1, FALSE, result)
    ELSE IF ~inTag THEN ScanTags(s, i + 1, inTag, Append(result, s[i]))
    ELSE ScanTags(s, i + 1, inTag, result)

HasPrefixAt(s, i, old) ==
    /\ i + Len(old) - 1 <= Len(s)
    /\ SubSeq(s, i, i + Len(old) - 1) = old

\* strings.ReplaceAll for a non-empty old: non-overlapping, left to right.
RECURSIVE ReplaceFrom(_, _, _, _)
ReplaceFrom(s, i, old, new) ==
    IF i > Len(s) THEN <<>>
    ELSE IF HasPrefixAt(s, i, old)
         THEN new \o ReplaceFrom(s, i + Len(old), old, new)
         ELSE <<s[i]>> \o ReplaceFrom(s, i + 1, old, new)

ReplaceAll(s, old, new) == ReplaceFrom(s, 1, old, new)

EntLt == <<"&", "l", "t", ";">>
EntGt == <<"&", "g", "t", ";">>
EntAmp == <<"&", "a", "m", "p", ";">>
EntQuot == <<"&", "q", "u", "o", "t", ";">>
EntApos == <<"&", "#", "3", "9", ";">>

stripHTML(s) ==
    LET t0 == ScanTags(s, 1, FALSE, <<>>)
        t1 == ReplaceAll(t0, EntLt, <<"<">>)
        t2 == ReplaceAll(t1, EntGt, <<">">>)
        t3 == ReplaceAll(t2, EntAmp, <<"&">>)
        t4 == ReplaceAll(t3, EntQuot, <<"\"">>)
    IN  ReplaceAll(t4, EntApos, <<"'">>)

StripHTML ==
    /\ pc = "stripHTML"
    /\ stripped = Pending
    /\ stripped' = stripHTML(text)
    /\ UNCHANGED <<mainVars, text>>

(***************************************************************************)
(* Inputs and specifications.                                              *)
(***************************************************************************)
RECURSIVE SeqsUpTo(_, _)
SeqsUpTo(S, n) ==
    IF n = 0 THEN {<<>>}
    ELSE LET shorter == SeqsUpTo(S, n - 1) IN
         shorter \cup {Append(q, x) : q \in shorter, x \in S}

Path_a_md == <<"a", ".", "m", "d">>
Path_a_pdf == <<"a", ".", "p", "d", "f">>
Path_a_tmp_html == <<"a">> \o TmpSuffix

InputArgs == {<<>>, Path_a_md, Path_a_tmp_html}
OutputArgs == {<<>>, Path_a_pdf}

Tokens ==
    {PathToken(f, p) : f \in {"i", "input"}, p \in InputArgs}
    \cup {PathToken(f, p) : f \in {"o", "output"}, p \in OutputArgs}
    \cup {StrToken("page", s) : s \in PageSizes}
    \cup {NumToken("font-size", 14)}
    \cup {BoolToken(f) : f \in {"h", "help", "v", "version"}}
    \cup {BoolToken("undefined")}
    \cup {PathToken("", Path_a_md)}

NoFiles == [p \in {} |-> Markdown]

FilesWith(paths) == [p \in paths |-> Markdown]

Idle ==
    /\ exitCode = NoExit
    /\ stdout = <<>>
    /\ stderr = <<>>
    /\ log = <<>>
    /\ tmpHTML = <<>>
    /\ deferred = FALSE
    /\ chromeIdx = 0
    /\ chromeCmd = NoCommand
    /\ ret = "nil"

\* A process started with any command line of at most MaxArgs tokens, the
\* input files present or absent.
Init ==
    /\ pc = "parseFlags"
    /\ argv \in SeqsUpTo(Tokens, MaxArgs)
    /\ cfg = ZeroConfig
    /\ files \in {NoFiles, FilesWith(InputArgs \ {<<>>})}
    /\ Idle
    /\ text = <<>>
    /\ stripped = Pending

Next ==
    \/ ParseFlags
    \/ MainHelp
    \/ MainVersion
    \/ MainMissingInput
    \/ MainResolveOutput
    \/ ConvertReadFile
    \/ ConvertWriteFile
    \/ ConvertLookWk
    \/ ConvertRunWk
    \/ ConvertWaitWk
    \/ ConvertLookChrome
    \/ ConvertNoRenderer
    \/ ConvertRunChrome
    \/ ConvertWaitChrome
    \/ ConvertReturn
    \/ MainFail
    \/ MainSuccess

Spec == Init /\ [][Next]_vars

\* main after parseFlags, for every input path of at most MaxPathLen
\* characters, with and without -o.
PathChars == {"a", "b", ".", "/"}

Paths == SeqsUpTo(PathChars, MaxPathLen)

InitDerive ==
    /\ pc = "main"
    /\ argv \in {<<PathToken("i", p)>> : p \in Paths}
                \cup {<<PathToken("i", p), PathToken("o", q)>> :
                        p \in Paths, q \in OutputArgs \ {<<>>}}
    /\ cfg = parseFlags(argv).cfg
    /\ files = NoFiles
    /\ Idle
    /\ text = <<>>
    /\ stripped = Pending

NextDerive ==
    \/ MainMissingInput
    \/ MainResolveOutput

SpecDerive == InitDerive /\ [][NextDerive]_vars

\* The conversion up to the temporary file, for every base font size within
\* FontSpread of the default.
FontSizes == (DefaultFontSize - FontSpread) .. (DefaultFontSize + FontSpread)

InitFont ==
    /\ pc = "main"
    /\ argv \in {<<PathToken("i", Path_a_md)>>}
                \cup {<<PathToken("i", Path_a_md), NumToken("font-size", n)>> :
                        n \in FontSizes}
    /\ cfg = parseFlags(argv).cfg
    /\ files \in {NoFiles, FilesWith({Path_a_md})}
    /\ Idle
    /\ text = <<>>
    /\ stripped = Pending

NextFont ==
    \/ MainResolveOutput
    \/ ConvertReadFile
    \/ ConvertWriteFile

SpecFont == InitFont /\ [][NextFont]_vars

\* stripHTML applied to every text of at most MaxPieces pieces.
Pieces ==
    {<<"<">>, <<">">>, <<"p">>, <<"&">>, <<"a", "m", "p", ";">>,
     <<"l", "t", ";">>, <<"g", "t", ";">>, <<"q", "u", "o", "t", ";">>,
     <<"#", "3", "9", ";">>}

RECURSIVE Concats(_)
Concats(n) ==
    IF n = 0 THEN {<<>>}
    ELSE LET shorter == Concats(n - 1) IN
         shorter \cup {t \o p : t \in shorter, p \in Pieces}

InitStrip ==
    /\ pc = "stripHTML"
    /\ argv = <<>>
    /\ cfg = ZeroConfig
    /\ files = NoFiles
    /\ Idle
    /\ text \in Concats(MaxPieces)
    /\ stripped = Pending

NextStrip == StripHTML

SpecStrip == InitStrip /\ [][NextStrip]_vars

(***************************************************************************)
(* Properties.                                                             *)
(***************************************************************************)
Exited == pc = "exited"

\* No file exists but the Markdown inputs the run started with.
FilesUntouched == \A p \in DOMAIN files : files[p] = Markdown

NoIO == log = <<>> /\ FilesUntouched /\ tmpHTML = <<>>

Printed(stream, line) == \E i \in 1..Len(stream) : stream[i] = line

IsLookPath(e) == e.op = "LookPath"

Runs == {i \in 1..Len(log) : log[i].op = "Run"}

WroteTmp == \E i \in 1..Len(log) : log[i].op = "WriteFile" /\ log[i].ok

\* The tokens flag.Parse reads: those before the first positional argument.
Read(i) == i \in 1..Len(argv) /\ \A j \in 1..i : argv[j].flag # ""

Given(f) == \E i \in 1..Len(argv) : Read(i) /\ argv[i].flag = f

RegisteredFlags ==
    {"i", "input", "o", "output", "page", "font-size", "h", "help", "v", "version"}

WellFormed == \A i \in 1..Len(argv) : Read(i) => argv[i].flag \in RegisteredFlags

\* C1: with neither help nor version set and an empty input path, the process
\* leaves main only by exiting non-zero with the missing-input message, and
\* up to then reads, writes, looks up and runs nothing.
C1_MissingInputFatalBeforeIO ==
    (/\ pc # "parseFlags"
     /\ WellFormed
     /\ ~cfg.ShowHelp
     /\ ~cfg.ShowVer
     /\ cfg.InputFile = <<>>)
    => /\ pc \in {"main", "exited"}
       /\ NoIO
       /\ stdout = <<>>
       /\ pc = "main" => ENABLED MainMissingInput
       /\ Exited =>
            /\ exitCode = 1
            /\ Printed(stderr, <<"Error: input file is required. Use -i flag to specify input file.">>)

C1_Witness ==
    /\ Exited
    /\ exitCode = 1
    /\ Given("o")
    /\ cfg.InputFile = <<>>
    /\ cfg.OutputFile # <<>>
    /\ NoIO

\* C2: when -h, --help, -v or --version is given (so ShowHelp or ShowVer is
\* set), whatever else is given and also without an input path, the process
\* prints the usage or the version and exits 0, never reaching the
\* missing-input check, the output-path derivation or the conversion.
C2_HelpVersionShortCircuit ==
    (/\ pc # "parseFlags"
     /\ WellFormed
     /\ \/ cfg.ShowHelp
        \/ cfg.ShowVer
        \/ Given("h")
        \/ Given("help")
        \/ Given("v")
        \/ Given("version"))
    => /\ cfg.ShowHelp <=> (Given("h") \/ Given("help"))
       /\ cfg.ShowVer <=> (Given("v") \/ Given("version"))
       /\ pc \in {"main", "exited"}
       /\ NoIO
       /\ pc = "main" => ENABLED (MainHelp \/ MainVersion)
       /\ pc = "main" => ~ENABLED (MainMissingInput \/ MainResolveOutput)
       /\ Exited =>
            /\ exitCode = 0
            /\ cfg.OutputFile = parseFlags(argv).cfg.OutputFile
            /\ \/ stderr = <<<<"usage">>>> /\ stdout = <<>>
               \/ stdout = <<<<"md2pdf version", "1.0.0">>>> /\ stderr = <<>>

C2_Witness ==
    /\ Exited
    /\ exitCode = 0
    /\ Given("help")
    /\ cfg.InputFile = <<>>
    /\ stderr = <<<<"usage">>>>

\* C3: declaratively, the extension of a path starts at the last dot of its
\* last element; the derived output path is the input without it, plus ".pdf".
ExtDots(p) ==
    {i \in 1..Len(p) : p[i] = "." /\ \A j \in i..Len(p) : p[j] # "/"}

Stem(p) ==
    IF ExtDots(p) = {} THEN p
    ELSE LET last == CHOOSE i \in ExtDots(p) : \A j \in ExtDots(p) : j <= i
         IN  SubSeq(p, 1, last - 1)

GivenOutput == IF Len(argv) >= 2 THEN argv[2].path ELSE <<>>

\* C3: once main has resolved the output path of a non-empty input path, it
\* is the given output path unchanged, or, when none was given, the input
\* path minus its final extension plus ".pdf" (guide.md -> guide.pdf,
\* a.b.md -> a.b.pdf).
C3_OutputPathDerivation ==
    /\ pc = "ReadFile" =>
         /\ cfg.InputFile = argv[1].path
         /\ cfg.InputFile # <<>>
         /\ cfg.OutputFile = IF GivenOutput # <<>> THEN GivenOutput
                             ELSE Stem(cfg.InputFile) \o PdfExt
    /\ DefaultOutput(<<"g", "u", "i", "d", "e", ".", "m", "d">>)
         = <<"g", "u", "i", "d", "e", ".", "p", "d", "f">>
    /\ DefaultOutput(<<"a", ".", "b", ".", "m", "d">>)
         = <<"a", ".", "b", ".", "p", "d", "f">>

C3_Witness ==
    /\ pc = "ReadFile"
    /\ Len(argv) = 1
    /\ cfg.InputFile = <<"a", ".", "b", ".">>
    /\ cfg.OutputFile = <<"a", ".", "b", ".", "p", "d", "f">>

Returned == pc \in {"returned", "exited"}

Removes == {i \in 1..Len(log) : log[i].op = "Remove"}

\* C4: once convertMarkdownToPDF has returned after writing the temporary
\* file, that file is gone, whether the renderer succeeded, failed or was
\* not found; it is there while a renderer runs, and its removal comes after
\* every renderer invocation has finished.
C4_TempFileRemovedOnReturn ==
    /\ (Returned /\ WroteTmp) =>
         /\ ~Exists(tmpHTML)
         /\ Removes # {}
    /\ pc \in {"WaitWk", "WaitChrome"} => (Exists(tmpHTML) /\ Removes = {})
    /\ \A k \in Removes :
         /\ k = Len(log)
         /\ log[k].path = tmpHTML
         /\ \A r \in Runs : \E x \in (r + 1)..(k - 1) :
              log[x].op = "Exit" /\ log[x].name = log[r].name

C4_Witness ==
    /\ pc = "returned"
    /\ WroteTmp
    /\ ret = "wkhtmltopdf failed"
    /\ Runs # {}
    /\ ~Exists(tmpHTML)

\* The renderers in order of priority.
Candidates ==
    <<"wkhtmltopdf",
      "/Applications/Google Chrome.app/Contents/MacOS/Google Chrome",
      "/Applications/Chromium.app/Contents/MacOS/Chromium",
      "chromium",
      "google-chrome">>

Lookups == SelectSeq(log, IsLookPath)

FailedExits == {i \in 1..Len(log) : log[i].op = "Exit" /\ ~log[i].ok}

NoRendererFound ==
    "no PDF renderer found. Please install wkhtmltopdf or Chrome: brew install wkhtmltopdf"

\* C5: the renderers are looked up in priority order, the lookup stops at
\* the first one found, at most one renderer is run, at most once, and it is
\* that one; after a renderer fails nothing more is looked up or run and the
\* failure is returned; when none is found none is run and the
\* "no PDF renderer found" error with the installation hint is returned.
C5_RendererPriorityNoFallback ==
    /\ Len(Lookups) <= Len(Candidates)
    /\ \A i \in 1..Len(Lookups) :
         /\ Lookups[i].name = Candidates[i]
         /\ Lookups[i].ok => i = Len(Lookups)
    /\ Cardinality(Runs) <= 1
    /\ \A r \in Runs :
         /\ Lookups # <<>>
         /\ Lookups[Len(Lookups)].ok
         /\ log[r].name = Lookups[Len(Lookups)].name
         /\ \A i \in (r + 1)..Len(log) : log[i].op \in {"Exit", "Remove"}
    /\ \A x \in FailedExits :
         /\ \A i \in (x + 1)..Len(log) : log[i].op = "Remove"
         /\ ret = IF log[x].name = "wkhtmltopdf" THEN "wkhtmltopdf failed"
                  ELSE "chrome headless failed"
    /\ (Returned /\ WroteTmp /\ Lookups # <<>> /\ ~Lookups[Len(Lookups)].ok) =>
         /\ Len(Lookups) = Len(Candidates)
         /\ Runs = {}
         /\ ret = NoRendererFound
    /\ (Returned /\ WroteTmp /\ Lookups # <<>> /\ Lookups[Len(Lookups)].ok) =>
         Cardinality(Runs) = 1
    /\ ret = NoRendererFound => Runs = {}

C5_Witness ==
    /\ pc = "returned"
    /\ Len(Lookups) = 4
    /\ \E r \in Runs : log[r].name = "chromium"
    /\ ret = "chrome headless failed"

FailedReads == {i \in 1..Len(log) : log[i].op = "ReadFile" /\ ~log[i].ok}

\* C6: after a failed read of the input file nothing else is done: no
\* temporary file, no lookup, no renderer, no output file; the function
\* returns "failed to read input file" and main exits with status 1,
\* reporting it, without the success line.
C6_UnreadableInput ==
    /\ (pc = "ReadFile" /\ ~Exists(cfg.InputFile)) => log = <<>>
    /\ FailedReads # {} =>
         /\ Len(log) = 1
         /\ log[1].path = cfg.InputFile
         /\ FilesUntouched
         /\ ~Exists(cfg.OutputFile)
         /\ tmpHTML = <<>>
         /\ ret = "failed to read input file"
         /\ pc \in {"return", "returned", "exited"}
         /\ stdout = <<>>
         /\ Exited =>
              /\ exitCode = 1
              /\ stderr = <<<<"Conversion failed", "failed to read input file">>>>

C6_Witness ==
    /\ Exited
    /\ FailedReads # {}
    /\ exitCode = 1
    /\ cfg.InputFile = Path_a_md

HasArg(args, a) == \E i \in 1..Len(args) : args[i] = a

HasPathArg(args, path) == \E i \in 1..Len(args) : args[i].path = path

\* C7: every renderer that is run gets the configured page size and the
\* configured output path among its arguments.
C7_RendererGetsPageSizeAndOutput ==
    \A r \in Runs :
      /\ HasArg(log[r].args, Arg(cfg.PageSize, <<>>))
      /\ HasPathArg(log[r].args, cfg.OutputFile)

HtmlFiles == {p \in DOMAIN files : files[p].kind = "html"}

Floor(x, low) == IF x < low THEN low ELSE x

\* C8 as stated: the rule of heading level L in the written template is
\* b + (4 - L) * 2, floored at the base font size b.
C8_HeadingSizeAsStated ==
    \A p \in HtmlFiles : \A L \in 1..4 :
      files[p].sizes[L + 1] = Floor(cfg.FontSize + (4 - L) * 2, cfg.FontSize)

\* C8 amended: the body rule of the written template is the base font size b
\* and the rule of heading level L, for L in 1..4, is b + (5 - L) * 2, always
\* above b; base 12 gives 20 for h1.
C8_HeadingSizeInTemplate ==
    \A p \in HtmlFiles :
      /\ Len(files[p].sizes) = 5
      /\ files[p].sizes[1] = cfg.FontSize
      /\ \A L \in 1..4 :
           /\ files[p].sizes[L + 1] = cfg.FontSize + (5 - L) * 2
           /\ files[p].sizes[L + 1] > cfg.FontSize
      /\ cfg.FontSize = 12 => files[p].sizes[2] = 20

C8_Witness ==
    /\ pc = "LookWk"
    /\ cfg.FontSize = 12
    /\ tmpHTML \in HtmlFiles
    /\ files[tmpHTML].sizes = <<12, 20, 18, 16, 14>>

\* Position i of s lies in a tag span: from a '<' up to and including the
\* next '>'.
InSpan(s, i) ==
    \E j \in 1..i :
      /\ s[j] = "<"
      /\ \A m \in j..(i - 1) : s[m] # ">"
      /\ \E k \in i..Len(s) : s[k] = ">"

RECURSIVE OutsideSpans(_, _)
OutsideSpans(s, i) ==
    IF i > Len(s) THEN <<>>
    ELSE IF InSpan(s, i) THEN OutsideSpans(s, i + 1)
    ELSE <<s[i]>> \o OutsideSpans(s, i + 1)

Entities ==
    {<<EntLt, "<">>, <<EntGt, ">">>, <<EntAmp, "&">>, <<EntQuot, "\"">>,
     <<EntApos, "'">>}

\* Every occurrence of one of the five entities replaced by its character.
RECURSIVE Decoded(_, _)
Decoded(s, i) ==
    IF i > Len(s) THEN <<>>
    ELSE IF \E e \in Entities : HasPrefixAt(s, i, e[1])
         THEN LET e == CHOOSE x \in Entities : HasPrefixAt(s, i, x[1])
              IN  <<e[2]>> \o Decoded(s, i + Len(e[1]))
         ELSE <<s[i]>> \o Decoded(s, i + 1)

\* C9: stripHTML returns its argument without the tag spans, every character
\* outside a span kept in order, and with the five entities decoded.
C9_StripHTMLAsStated ==
    stripped # Pending => stripped = Decoded(OutsideSpans(text, 1), 1)

\* C10: the program itself writes and removes only the temporary HTML file,
\* whose path differs from the input path, so an input file that was read is
\* still there, unchanged, afterwards.
C10_InputFileUntouched ==
    /\ \A i \in 1..Len(log) :
         log[i].op \in {"WriteFile", "Remove"} =>
           (log[i].path = tmpHTML /\ log[i].path # cfg.InputFile)
    /\ (\E i \in 1..Len(log) : log[i].op = "ReadFile" /\ log[i].ok) =>
         (Exists(cfg.InputFile) /\ files[cfg.InputFile] = Markdown)

====
